---- MODULE Spec2Model ----
(***************************************************************************)
(* Model of Python/archive/2_1_factory.py: the pizza registry              *)
(* (PizzaFactory), the category chefs (VegChef, NonVegChef), the           *)
(* dispatcher (HeadChef), Order, Receptionist, Waiter and the interactive  *)
(* order loop.                                                             *)
(*                                                                         *)
(* Python objects are modelled as records.  A Pizza instance is            *)
(* [oid, cls]: its identity and its class (the classes have no fields).    *)
(* A call's outcome is [kind, val, nobjs, out, absorbed]: kind is "return" *)
(* or "raise", val the returned value or the raised exception, nobjs the   *)
(* number of Pizza instances allocated once the call is over, out the      *)
(* lines the call printed, absorbed the exceptions caught on the way.      *)
(***************************************************************************)
EXTENDS FiniteSets, Integers, Sequences, TLC

\* ------------------------------------------------------------------ bounds
MaxRegister == 2    \* register calls made after the start-up registrations
MaxObjs == 3        \* Pizza instances allocated
MaxOrders == 2      \* Order objects kept alive by the caller
MaxRequests == 3    \* requests typed into the order loop

\* ------------------------------------------------------------ input sets
Classes == {"Margherita", "Paneer", "Chicken", "Farmhouse"}
Names == {"margherita", "paneer", "farmhouse", "chicken", "pepperoni"}
Categories == {"veg", "nonveg", "special"}
OrderIds == {1, 5}
\* what the caller registers after start-up: a name of either chef's category,
\* a name unknown so far, and two of the classes
RegisterNames == {"margherita", "chicken", "pepperoni"}
RegisterClasses == {"Chicken", "Paneer"}
Choices == Names \cup {"exit"}

None == [type |-> "NoneType"]

\* --------------------------------------------------------------- printing
Line(kind, id, arg) == [kind |-> kind, id |-> id, arg |-> arg]

\* Pizza.prepare of the four concrete classes (lines 14-31)
Pizza_prepare(pizza) ==
    CASE pizza.cls = "Margherita" -> << Line("pizza", 0, "Margherita: Cheese only!") >>
      [] pizza.cls = "Paneer"     -> << Line("pizza", 0, "Paneer Pizza: Spicy paneer chunks!") >>
      [] pizza.cls = "Chicken"    -> << Line("pizza", 0, "Chicken Pizza: Grilled chicken!") >>
      [] pizza.cls = "Farmhouse"  -> << Line("pizza", 0, "Farmhouse Pizza: Loaded with veggies!") >>

\* --------------------------------------------------------------- outcomes
Return(val, n, out, absorbed) ==
    [kind |-> "return", val |-> val, nobjs |-> n, out |-> out, absorbed |-> absorbed]

Raise(exc, n, out, absorbed) ==
    [kind |-> "raise", val |-> exc, nobjs |-> n, out |-> out, absorbed |-> absorbed]

\* ValueError(f"...{arg}"): msg names the f-string, arg its argument
ValueError(msg, arg) == [type |-> "ValueError", msg |-> msg, arg |-> arg]

\* ------------------------------------------------------------------ dicts
EmptyDict == [k \in {} |-> {}]

DictSet(d, k, v) == [x \in (DOMAIN d) \cup {k} |-> IF x = k THEN v ELSE d[x]]

\* dict.get(k, default)
DictGet(d, k, default) == IF k \in DOMAIN d THEN d[k] ELSE default

\* ------------------------------------------------------------ PizzaFactory
\* The two class attributes as one value
Factory(reg, cats) == [registry |-> reg, categories |-> cats]

\* register as if the category set were never updated
PizzaFactory_register_nocat(f, name, constructor, category) ==
    Factory(DictSet(f.registry, name, constructor), f.categories)

\* register as if the name were moved out of every other category
PizzaFactory_register_move(f, name, constructor, category) ==
    Factory(DictSet(f.registry, name, constructor),
            DictSet([c \in DOMAIN f.categories |-> f.categories[c] \ {name}],
                    category, DictGet(f.categories, category, {}) \cup {name}))

\* register as if only the category set were updated
PizzaFactory_register_noctor(f, name, constructor, category) ==
    Factory(f.registry,
            DictSet(f.categories, category,
                    DictGet(f.categories, category, {}) \cup {name}))

PizzaFactory_register(f, name, constructor, category) ==
    Factory(DictSet(f.registry, name, constructor),
            DictSet(f.categories, category,
                    DictGet(f.categories, category, {}) \cup {name}))

\* get_pizza as if one instance per class were cached and handed out again
PizzaFactory_get_pizza_cached(f, n, name) ==
    IF name \in DOMAIN f.registry
    THEN Return([oid |-> 1, cls |-> f.registry[name]], IF n = 0 THEN 1 ELSE n, << >>, << >>)
    ELSE Raise(ValueError("Unknown pizza type: ", name), n, << >>, << >>)

PizzaFactory_get_pizza(f, n, name) ==
    IF name \in DOMAIN f.registry
    THEN Return([oid |-> n + 1, cls |-> f.registry[name]], n + 1, << >>, << >>)
    ELSE Raise(ValueError("Unknown pizza type: ", name), n, << >>, << >>)

PizzaFactory_get_category(f, category) == DictGet(f.categories, category, {})

\* The module-level registrations
StartupFactory ==
    PizzaFactory_register(
      PizzaFactory_register(
        PizzaFactory_register(
          PizzaFactory_register(Factory(EmptyDict, EmptyDict),
                                "margherita", "Margherita", "veg"),
          "paneer", "Paneer", "veg"),
        "farmhouse", "Farmhouse", "veg"),
      "chicken", "Chicken", "nonveg")

\* ------------------------------------------------------------------- chefs
\* VegChef as if it handed every request to the factory
VegChef_prepare_pizza_nocheck(f, n, pizza_type) ==
    PizzaFactory_get_pizza(f, n, pizza_type)

VegChef_prepare_pizza(f, n, pizza_type) ==
    IF pizza_type \in PizzaFactory_get_category(f, "veg")
    THEN PizzaFactory_get_pizza(f, n, pizza_type)
    ELSE Raise(ValueError("VegChef can't prepare ", pizza_type), n, << >>, << >>)

NonVegChef_prepare_pizza(f, n, pizza_type) ==
    IF pizza_type \in PizzaFactory_get_category(f, "nonveg")
    THEN PizzaFactory_get_pizza(f, n, pizza_type)
    ELSE Raise(ValueError("NonVegChef can't prepare ", pizza_type), n, << >>, << >>)

\* chef.prepare_pizza(...): dispatch on the chef's class
Chef_prepare_pizza(chef, f, n, pizza_type) ==
    CASE chef = "VegChef"    -> VegChef_prepare_pizza(f, n, pizza_type)
      [] chef = "NonVegChef" -> NonVegChef_prepare_pizza(f, n, pizza_type)

\* chef_registry = {"veg": VegChef(), "nonveg": NonVegChef()}, in insertion order
chef_registry ==
    << [key |-> "veg", chef |-> "VegChef"], [key |-> "nonveg", chef |-> "NonVegChef"] >>

\* The category literal each chef class tests membership in (lines 76 and 84)
ChefCategory(chef) ==
    CASE chef = "VegChef"    -> "veg"
      [] chef = "NonVegChef" -> "nonveg"

HandlerCategories == {ChefCategory(chef_registry[i].chef) : i \in DOMAIN chef_registry}

\* ---------------------------------------------------------------- HeadChef
\* The for loop of place_order from the i-th chef on; absorbed collects the
\* exceptions the except clause has caught so far
RECURSIVE HeadChef_loop(_, _, _, _, _, _)
HeadChef_loop(chefs, i, f, n, pizza_type, absorbed) ==
    IF i > Len(chefs)
    THEN Raise(ValueError("No chef available to prepare ", pizza_type), n, << >>, absorbed)
    ELSE LET r == Chef_prepare_pizza(chefs[i].chef, f, n, pizza_type)
         IN  IF r.kind = "return"
             THEN Return(r.val, r.nobjs, << >>, absorbed)
             ELSE IF r.val.type = "ValueError"
                  THEN HeadChef_loop(chefs, i + 1, f, r.nobjs, pizza_type,
                                     Append(absorbed, r.val))
                  ELSE Raise(r.val, r.nobjs, << >>, absorbed)

\* place_order as if the except clause re-raised the chef's error
HeadChef_place_order_reraise(chefs, f, n, pizza_type) ==
    LET r == Chef_prepare_pizza(chefs[1].chef, f, n, pizza_type)
    IN  IF r.kind = "return" THEN r
        ELSE Raise(r.val, r.nobjs, << >>, << >>)

\* place_order as if only the first chef were asked
HeadChef_place_order_firstonly(chefs, f, n, pizza_type) ==
    HeadChef_loop(SubSeq(chefs, 1, 1), 1, f, n, pizza_type, << >>)

HeadChef_place_order(chefs, f, n, pizza_type) ==
    HeadChef_loop(chefs, 1, f, n, pizza_type, << >>)

\* ------------------------------------------------------------------- Order
Order(order_id, pizza) == [order_id |-> order_id, pizza |-> pizza]

\* Order.prepare / Order.deliver give the lines printed and self afterwards

\* prepare as if it consumed the pizza, leaving a Margherita in its place
Order_prepare_consume(self) ==
    [out  |-> << Line("preparing", self.order_id, "") >> \o Pizza_prepare(self.pizza),
     self |-> Order(self.order_id, [oid |-> self.pizza.oid, cls |-> "Margherita"])]

Order_prepare(self) ==
    [out  |-> << Line("preparing", self.order_id, "") >> \o Pizza_prepare(self.pizza),
     self |-> self]

Order_deliver(self) ==
    [out  |-> << Line("delivering", self.order_id, "") >> \o Pizza_prepare(self.pizza),
     self |-> self]

\* ------------------------------------------------------------ Receptionist
\* take_order as if the order were numbered by the receptionist
Receptionist_take_order_renumber(chefs, f, n, pizza_type, order_id) ==
    LET out == << Line("received", order_id, pizza_type) >>
        r   == HeadChef_place_order(chefs, f, n, pizza_type)
    IN  IF r.kind = "return"
        THEN Return(Order(1, r.val), r.nobjs, out, r.absorbed)
        ELSE Raise(r.val, r.nobjs, out, r.absorbed)

Receptionist_take_order(chefs, f, n, pizza_type, order_id) ==
    LET out == << Line("received", order_id, pizza_type) >>
        r   == HeadChef_place_order(chefs, f, n, pizza_type)
    IN  IF r.kind = "return"
        THEN Return(Order(order_id, r.val), r.nobjs, out, r.absorbed)
        ELSE Raise(r.val, r.nobjs, out, r.absorbed)

\* ------------------------------------------------------------------ Waiter
Waiter_deliver(order) == Order_deliver(order)

\* =================================================================== state
VARIABLES
    registry,       \* PizzaFactory.registry: name -> constructor
    categories,     \* PizzaFactory.categories: category -> set of names
    nregs,          \* register calls made after start-up
    nobjs,          \* Pizza instances allocated so far; their oids are 1..nobjs
    orders,         \* the Order objects the caller holds
    call,           \* the last call made by the caller and its outcome
    pc,             \* position of the order loop
    order_counter,  \* the loop's order_counter
    choice,         \* the loop's choice
    order,          \* the loop's order
    exc,            \* the exception bound by the loop's except clause
    stdout          \* the lines the order loop and its callees printed

vars == << registry, categories, nregs, nobjs, orders, call,
           pc, order_counter, choice, order, exc, stdout >>

factoryVars == << registry, categories, nregs >>
loopVars == << pc, order_counter, choice, order, exc, stdout >>

TheFactory == Factory(registry, categories)

Called(op, args, r) ==
    [op |-> op, args |-> args, kind |-> r.kind, val |-> r.val,
     out |-> r.out, absorbed |-> r.absorbed]

\* The module once imported: pc is "start" when it runs as __main__
Init ==
    /\ registry = StartupFactory.registry
    /\ categories = StartupFactory.categories
    /\ nregs = 0
    /\ nobjs = 0
    /\ orders = << >>
    /\ call = Called("import", << >>, Return(None, 0, << >>, << >>))
    /\ pc \in {"idle", "start"}
    /\ order_counter = 0
    /\ choice = ""
    /\ order = None
    /\ exc = None
    /\ stdout = << >>

\* =========================================================== calls, any order
Register ==
    /\ nregs < MaxRegister
    /\ \E name \in RegisterNames, constructor \in RegisterClasses, category \in Categories :
          LET f == PizzaFactory_register(TheFactory, name, constructor, category)
          IN  /\ registry' = f.registry
              /\ categories' = f.categories
              /\ call' = Called("register", << name, constructor, category >>,
                                Return(None, nobjs, << >>, << >>))
    /\ nregs' = nregs + 1
    /\ UNCHANGED << nobjs, orders >>
    /\ UNCHANGED loopVars

GetPizza ==
    /\ \E name \in Names :
          LET r == PizzaFactory_get_pizza(TheFactory, nobjs, name)
          IN  /\ r.nobjs <= MaxObjs
              /\ nobjs' = r.nobjs
              /\ call' = Called("get_pizza", << name >>, r)
    /\ UNCHANGED << orders >>
    /\ UNCHANGED factoryVars
    /\ UNCHANGED loopVars

GetCategory ==
    /\ \E category \in Categories \cup {"vegan"} :
          call' = Called("get_category", << category >>,
                         Return(PizzaFactory_get_category(TheFactory, category),
                                nobjs, << >>, << >>))
    /\ UNCHANGED << nobjs, orders >>
    /\ UNCHANGED factoryVars
    /\ UNCHANGED loopVars

ChefPrepare ==
    /\ \E i \in DOMAIN chef_registry, pizza_type \in Names :
          LET chef == chef_registry[i].chef
              r == Chef_prepare_pizza(chef, TheFactory, nobjs, pizza_type)
          IN  /\ r.nobjs <= MaxObjs
              /\ nobjs' = r.nobjs
              /\ call' = Called("prepare_pizza", << chef, pizza_type >>, r)
    /\ UNCHANGED << orders >>
    /\ UNCHANGED factoryVars
    /\ UNCHANGED loopVars

PlaceOrder ==
    /\ \E pizza_type \in Names :
          LET r == HeadChef_place_order(chef_registry, TheFactory, nobjs, pizza_type)
          IN  /\ r.nobjs <= MaxObjs
              /\ nobjs' = r.nobjs
              /\ call' = Called("place_order", << pizza_type >>, r)
    /\ UNCHANGED << orders >>
    /\ UNCHANGED factoryVars
    /\ UNCHANGED loopVars

\* take_order, the caller letting go of the Order it gets
TakeOrder ==
    /\ \E pizza_type \in Names, order_id \in OrderIds :
          LET r == Receptionist_take_order(chef_registry, TheFactory, nobjs,
                                           pizza_type, order_id)
          IN  /\ r.nobjs <= MaxObjs
              /\ nobjs' = r.nobjs
              /\ call' = Called("take_order", << pizza_type, order_id >>, r)
    /\ UNCHANGED << orders >>
    /\ UNCHANGED factoryVars
    /\ UNCHANGED loopVars

\* take_order, the caller holding on to the Order it gets
TakeOrderKeep ==
    /\ \E pizza_type \in Names, order_id \in OrderIds :
          LET r == Receptionist_take_order(chef_registry, TheFactory, nobjs,
                                           pizza_type, order_id)
          IN  /\ r.nobjs <= MaxObjs
              /\ r.kind = "return" => Len(orders) < MaxOrders
              /\ nobjs' = r.nobjs
              /\ orders' = IF r.kind = "return" THEN Append(orders, r.val) ELSE orders
              /\ call' = Called("take_order", << pizza_type, order_id >>, r)
    /\ UNCHANGED factoryVars
    /\ UNCHANGED loopVars

OrderPrepare ==
    /\ \E i \in DOMAIN orders :
          LET r == Order_prepare(orders[i])
          IN  /\ orders' = [orders EXCEPT ![i] = r.self]
              /\ call' = Called("Order.prepare", << i >>,
                                Return(None, nobjs, r.out, << >>))
    /\ UNCHANGED << nobjs >>
    /\ UNCHANGED factoryVars
    /\ UNCHANGED loopVars

OrderDeliver ==
    /\ \E i \in DOMAIN orders :
          LET r == Order_deliver(orders[i])
          IN  /\ orders' = [orders EXCEPT ![i] = r.self]
              /\ call' = Called("Order.deliver", << i >>,
                                Return(None, nobjs, r.out, << >>))
    /\ UNCHANGED << nobjs >>
    /\ UNCHANGED factoryVars
    /\ UNCHANGED loopVars

WaiterDeliver ==
    /\ \E i \in DOMAIN orders :
          LET r == Waiter_deliver(orders[i])
          IN  /\ orders' = [orders EXCEPT ![i] = r.self]
              /\ call' = Called("Waiter.deliver", << i >>,
                                Return(None, nobjs, r.out, << >>))
    /\ UNCHANGED << nobjs >>
    /\ UNCHANGED factoryVars
    /\ UNCHANGED loopVars

Next ==
    \/ Register
    \/ GetPizza
    \/ GetCategory
    \/ ChefPrepare
    \/ PlaceOrder
    \/ TakeOrder

InitCalls ==
    /\ Init
    /\ pc = "idle"

Spec == InitCalls /\ [][Next]_vars

\* Orders taken with the start-up registrations and then prepared and delivered
NextOrders ==
    \/ TakeOrderKeep
    \/ OrderPrepare
    \/ OrderDeliver
    \/ WaiterDeliver

SpecOrders == InitCalls /\ [][NextOrders]_vars

\* ============================================================ the order loop
\* the loop writing lines to standard output
Emit(lines) == stdout' = stdout \o lines

\* lines 191-200
MainStart ==
    /\ pc = "start"
    /\ Emit(<< Line("welcome", 0, ""), Line("available", 0, DOMAIN registry) >>)
    /\ order_counter' = 1
    /\ pc' = "input"
    /\ UNCHANGED << choice, order, exc >>
    /\ UNCHANGED << nobjs, orders, call >>
    /\ UNCHANGED factoryVars

\* lines 203-211; choice is the line typed, lower-cased and stripped
MainInput ==
    /\ pc = "input"
    /\ order_counter <= MaxRequests
    /\ \E typed \in Choices :
          /\ choice' = typed
          /\ IF typed = "exit"
             THEN /\ Emit(<< Line("available", 0, DOMAIN registry),
                              Line("goodbye", 0, "") >>)
                  /\ pc' = "done"
             ELSE /\ Emit(<< Line("available", 0, DOMAIN registry) >>)
                  /\ pc' = "take"
    /\ UNCHANGED << order_counter, order, exc >>
    /\ UNCHANGED << nobjs, orders, call >>
    /\ UNCHANGED factoryVars

\* line 213
MainTakeOrder ==
    /\ pc = "take"
    /\ LET r == Receptionist_take_order(chef_registry, TheFactory, nobjs,
                                        choice, order_counter)
       IN  /\ nobjs' = r.nobjs
           /\ Emit(r.out)
           /\ IF r.kind = "return"
              THEN /\ order' = r.val
                   /\ exc' = exc
                   /\ pc' = "prepare"
              ELSE /\ order' = order
                   /\ exc' = r.val
                   /\ pc' = IF r.val.type = "ValueError" THEN "except" ELSE "crashed"
    /\ UNCHANGED << order_counter, choice >>
    /\ UNCHANGED << orders, call >>
    /\ UNCHANGED factoryVars

\* the loop as if it delivered without preparing
MainPrepare_skip ==
    /\ pc = "prepare"
    /\ pc' = "deliver"
    /\ UNCHANGED << stdout, order_counter, choice, order, exc >>
    /\ UNCHANGED << nobjs, orders, call >>
    /\ UNCHANGED factoryVars

\* line 214
MainPrepare ==
    /\ pc = "prepare"
    /\ LET r == Order_prepare(order)
       IN  /\ Emit(r.out)
           /\ order' = r.self
    /\ pc' = "deliver"
    /\ UNCHANGED << order_counter, choice, exc >>
    /\ UNCHANGED << nobjs, orders, call >>
    /\ UNCHANGED factoryVars

\* line 215
MainDeliver ==
    /\ pc = "deliver"
    /\ LET r == Waiter_deliver(order)
       IN  /\ Emit(r.out)
           /\ order' = r.self
    /\ pc' = "finally"
    /\ UNCHANGED << order_counter, choice, exc >>
    /\ UNCHANGED << nobjs, orders, call >>
    /\ UNCHANGED factoryVars

\* lines 216-217
MainExcept ==
    /\ pc = "except"
    /\ Emit(<< Line("error", order_counter, exc) >>)
    /\ pc' = "finally"
    /\ UNCHANGED << order_counter, choice, order, exc >>
    /\ UNCHANGED << nobjs, orders, call >>
    /\ UNCHANGED factoryVars

\* lines 218-219
MainFinally ==
    /\ pc = "finally"
    /\ order_counter' = order_counter + 1
    /\ pc' = "input"
    /\ UNCHANGED << stdout, choice, order, exc >>
    /\ UNCHANGED << nobjs, orders, call >>
    /\ UNCHANGED factoryVars

InitMain ==
    /\ Init
    /\ pc = "start"

NextMain ==
    \/ MainStart
    \/ MainInput
    \/ MainTakeOrder
    \/ MainPrepare
    \/ MainDeliver
    \/ MainExcept
    \/ MainFinally

SpecMain == InitMain /\ [][NextMain]_vars

\* ================================================================ properties
\* membersOf(category), read off the state
Members(category) == IF category \in DOMAIN categories THEN categories[category] ELSE {}

UnknownItemType(e, name) == e = ValueError("Unknown pizza type: ", name)

CategoryMismatch(e, chef, name) ==
    \/ chef = "VegChef" /\ e = ValueError("VegChef can't prepare ", name)
    \/ chef = "NonVegChef" /\ e = ValueError("NonVegChef can't prepare ", name)

NoHandlerAvailable(e, name) == e = ValueError("No chef available to prepare ", name)

\* C1: place_order returns exactly when the name is in the category of at
\* least one configured chef; in every other case it raises the
\* "No chef available" error.
C1_DispatcherIff ==
    call.op = "place_order" =>
        LET n == call.args[1]
        IN  IF \E c \in HandlerCategories : n \in Members(c)
            THEN call.kind = "return"
            ELSE call.kind = "raise" /\ NoHandlerAvailable(call.val, n)

\* a registered name that no chef's category holds is turned down
C1_Witness ==
    /\ call.op = "place_order"
    /\ call.kind = "raise"
    /\ call.args[1] \in DOMAIN registry
    /\ call.args[1] \in Members("special")

\* C2: the chef of category C returns a pizza for every name in the member
\* set of C and raises its "can't prepare" error for every other name.
C2_HandlerByCategory ==
    call.op = "prepare_pizza" =>
        LET chef == call.args[1]
            n    == call.args[2]
        IN  IF n \in Members(ChefCategory(chef))
            THEN call.kind = "return"
            ELSE call.kind = "raise" /\ CategoryMismatch(call.val, chef, n)

\* the veg chef turns down a registered name that is only in another category
C2_Witness ==
    /\ call.op = "prepare_pizza"
    /\ call.args[1] = "VegChef"
    /\ call.kind = "raise"
    /\ call.args[2] \in DOMAIN registry
    /\ call.args[2] \in Members("special")

\* C3: the only error place_order and take_order raise is the "No chef
\* available" error; each chef's error was caught and the next chef asked,
\* so a failing call has caught one error per configured chef.
C3_MismatchNeverEscapes ==
    (call.op \in {"place_order", "take_order"} /\ call.kind = "raise") =>
        /\ NoHandlerAvailable(call.val, call.args[1])
        /\ Len(call.absorbed) = Len(chef_registry)

C3_Witness ==
    /\ call.op = "take_order"
    /\ call.kind = "raise"
    /\ Len(call.absorbed) = 2
    /\ CategoryMismatch(call.absorbed[1], "VegChef", call.args[1])

\* C4: get_pizza of a registered name returns an instance of the class
\* registered for it whose identity is none of the identities handed out
\* before; get_pizza of any other name raises the "Unknown pizza type" error.
C4_CreateFresh ==
    [][call'.op = "get_pizza" =>
         LET n == call'.args[1]
         IN  IF n \in DOMAIN registry
             THEN /\ call'.kind = "return"
                  /\ call'.val.cls = registry[n]
                  /\ call'.val.oid \notin 1..nobjs
                  /\ call'.val.oid \in 1..nobjs'
             ELSE /\ call'.kind = "raise"
                  /\ UnknownItemType(call'.val, n)]_vars

\* a second instance, made for a name registered after start-up
C4_Witness ==
    /\ call.op = "get_pizza"
    /\ call.kind = "return"
    /\ call.args[1] = "pepperoni"
    /\ call.val.oid >= 2

\* C5: register stores the constructor given for the name, adds the name to
\* the given category and removes nothing from any category or from any other
\* name's entry; get_pizza then builds the name with the constructor given.
C5_RegisterOverwritesAndAdds ==
    [][call'.op = "register" =>
         LET name        == call'.args[1]
             constructor == call'.args[2]
             category    == call'.args[3]
         IN  /\ name \in DOMAIN registry'
             /\ registry'[name] = constructor
             /\ \A m \in DOMAIN registry : m # name =>
                    m \in DOMAIN registry' /\ registry'[m] = registry[m]
             /\ category \in DOMAIN categories'
             /\ name \in categories'[category]
             /\ \A c \in DOMAIN categories :
                    c \in DOMAIN categories' /\ categories[c] \subseteq categories'[c]
             /\ PizzaFactory_get_pizza(Factory(registry', categories'),
                                       nobjs', name).val.cls = constructor]_vars

\* chicken, registered under nonveg at start-up, registered again under veg
\* with another constructor
C5_Witness ==
    /\ call.op = "register"
    /\ call.args = << "chicken", "Paneer", "veg" >>
    /\ "chicken" \in Members("veg") \cap Members("nonveg")
    /\ registry["chicken"] = "Paneer"

\* C6: every registered name maps to one constructor and is in at least one
\* category.
C6_RegisteredHasCategory ==
    \A n \in DOMAIN registry :
        /\ registry[n] \in Classes
        /\ \E c \in DOMAIN categories : n \in categories[c]

C6_Witness ==
    /\ "pepperoni" \in DOMAIN registry
    /\ nregs >= 2
    /\ call.op = "take_order"

\* C7: take_order returns an Order exactly when place_order returns a pizza,
\* the Order holds the id given and that pizza; when place_order raises,
\* take_order raises the same error and no Order comes to exist.
C7_OrderIffResolved ==
    [][call'.op = "take_order" =>
         LET pizza_type == call'.args[1]
             order_id   == call'.args[2]
             r == HeadChef_place_order(chef_registry, TheFactory, nobjs, pizza_type)
         IN  IF r.kind = "return"
             THEN /\ call'.kind = "return"
                  /\ call'.val.order_id = order_id
                  /\ call'.val.pizza = r.val
                  /\ orders' = Append(orders, call'.val)
             ELSE /\ call'.kind = "raise"
                  /\ call'.val = r.val
                  /\ orders' = orders]_vars

\* take_order("paneer", 5)
C7_Witness ==
    /\ call.op = "take_order"
    /\ call.args = << "paneer", 5 >>
    /\ call.kind = "return"
    /\ Len(orders) >= 1
    /\ orders[Len(orders)].order_id = 5
    /\ orders[Len(orders)].pizza.cls = "Paneer"

\* The steps of request k in the order they were printed
IsStep(k, line) ==
    line.kind \in {"received", "preparing", "delivering", "error"} /\ line.id = k

RECURSIVE StepsFrom(_, _)
StepsFrom(k, i) ==
    IF i > Len(stdout) THEN << >>
    ELSE IF IsStep(k, stdout[i]) THEN << stdout[i].kind >> \o StepsFrom(k, i + 1)
         ELSE StepsFrom(k, i + 1)

Steps(k) == StepsFrom(k, 1)

Delivered == << "received", "preparing", "delivering" >>
Rejected == << "received", "error" >>

IsPrefix(s, t) == Len(s) <= Len(t) /\ s = SubSeq(t, 1, Len(s))

\* C8: every request the loop has finished was received, prepared and
\* delivered in that order, or received and rejected with no preparation and
\* no delivery; the request under way has gone through a prefix of one of the
\* two courses.
C8_Lifecycle ==
    \A k \in 1..order_counter :
        IF k < order_counter
        THEN Steps(k) \in {Delivered, Rejected}
        ELSE IsPrefix(Steps(k), Delivered) \/ IsPrefix(Steps(k), Rejected)

\* one request delivered, the next rejected
C8_Witness ==
    /\ pc = "done"
    /\ order_counter = 3
    /\ Steps(1) = Delivered
    /\ Steps(2) = Rejected

\* C9: Order.prepare leaves the Order as it was and a further prepare of the
\* same Order prints what this one printed; Order.deliver leaves the Order
\* as it was too.
C9_PrepareIdempotent ==
    [][/\ call'.op = "Order.prepare" =>
            LET i == call'.args[1]
            IN  /\ orders' = orders
                /\ Order_prepare(orders'[i]).out = call'.out
                /\ Order_prepare(orders'[i]).self = orders'[i]
       /\ call'.op \in {"Order.deliver", "Waiter.deliver"} => orders' = orders]_vars

\* one of two Orders held, a Chicken pizza numbered 5, prepared
C9_Witness ==
    /\ call.op = "Order.prepare"
    /\ Len(orders) = 2
    /\ orders[call.args[1]].pizza.cls = "Chicken"
    /\ orders[call.args[1]].order_id = 5

\* C10: every name of every category has a constructor; a chef whose
\* membership test passes returns a pizza, and no error caught by place_order
\* is the "Unknown pizza type" error.
C10_MembersRegistered ==
    /\ \A c \in DOMAIN categories : categories[c] \subseteq DOMAIN registry
    /\ (call.op = "prepare_pizza" /\ call.args[2] \in Members(ChefCategory(call.args[1])))
          => call.kind = "return"
    /\ call.op \in {"place_order", "take_order"} =>
          \A i \in DOMAIN call.absorbed :
              ~ UnknownItemType(call.absorbed[i], call.args[1])

\* the nonveg chef serves a name registered after start-up, the veg chef's
\* error having been caught
C10_Witness ==
    /\ call.op = "place_order"
    /\ call.args[1] = "pepperoni"
    /\ call.kind = "return"
    /\ Len(call.absorbed) = 1

====
